---- MODULE Spec2Model ----
(***************************************************************************)
(* Model of skillserver/skillserver.go: the Alexa request gate.            *)
(*                                                                         *)
(* initialize() installs the application registry and builds the           *)
(* RequestValidator; every request under the echo prefix runs the chain    *)
(* validateRequest -> verifyJSON -> echoRouter.  One action (ServeEcho)    *)
(* models one whole pass of that chain, with everything the chain reads    *)
(* from outside (certificate fetch, clock, body stream errors) drawn from  *)
(* bounded sets.                                                           *)
(***************************************************************************)
EXTENDS Integers, Sequences, FiniteSets, TLC

\* ------------------------------------------------------------------ bounds

\* Longest request body, in chunks.
MaxBody == 2

\* ------------------------------------------------------- program constants

StatusBadRequest == 400
StatusNotAuthorized == 401
StatusInternalError == 500
\* Freshness window in seconds.
FreshnessWindow == 150

RequiredName == "echo-api.amazon.com"
OtherName == "evil.example.com"

\* ---------------------------------------------------------------- helpers

Last(s) == s[Len(s)]

RECURSIVE SeqsUpTo(_, _)
\* All sequences over S of length <= n.
SeqsUpTo(S, n) ==
  IF n = 0 THEN {<<>>}
  ELSE LET shorter == SeqsUpTo(S, n - 1)
       IN shorter \cup {Append(s, x) : s \in {t \in shorter : Len(t) = n - 1}, x \in S}

\* ------------------------------------------------------------- net/url

\* A raw header value for SignatureCertChainUrl, kept as its pieces as typed
\* by the client: scheme (case as sent), authority, path segments, and
\* whether the text holds something url.Parse refuses (a bad %-escape, a
\* control character).  The absent or empty header is RawEmpty.
RawURL(scheme, host, path, malformed) ==
  [scheme |-> scheme, host |-> host, path |-> path, malformed |-> malformed]

RawEmpty == RawURL("", "", <<>>, FALSE)
GoodPath == <<"echo.api", "echo-api-cert.pem">>

\* strings.ToLower on the scheme names that occur.
ToLower(s) == IF s = "HTTPS" THEN "https" ELSE IF s = "HTTP" THEN "http" ELSE s

\* url.Parse: (nil, err) on a malformed text, else the URL with the scheme
\* lower-cased.
urlParse(raw) ==
  IF raw.malformed
  THEN [nil |-> TRUE, Scheme |-> "", Host |-> "", Path |-> <<>>]
  ELSE [nil |-> FALSE, Scheme |-> ToLower(raw.scheme), Host |-> raw.host, Path |-> raw.path]

\* strings.HasPrefix(link.Path, "/echo.api/"): Path is "/" followed by the
\* segments joined with "/", so the prefix needs a first segment echo.api
\* and a slash after it, that is a second segment (possibly empty).
HasEchoApiPrefix(path) == Len(path) >= 2 /\ path[1] = "echo.api"

\* verifyCertURL: "true", "false", or "panic" when link is nil (the error of
\* url.Parse is discarded and link.Scheme dereferences the nil pointer).
verifyCertURL(path) ==
  LET link == urlParse(path)
  IN IF link.nil THEN "panic"
     ELSE IF link.Scheme # "https" THEN "false"
     ELSE IF link.Host # "s3.amazonaws.com" /\ link.Host # "s3.amazonaws.com:443" THEN "false"
     ELSE IF ~HasEchoApiPrefix(link.Path) THEN "false"
     ELSE "true"

CertURLs ==
  {RawURL(s, h, p, FALSE) :
      s \in {"https", "http"},
      h \in {"s3.amazonaws.com", "s3.amazonaws.com:443", OtherName},
      p \in {GoodPath, <<"echo.api">>, <<"other", "echo.api", "x">>}}
  \cup {RawURL("HTTPS", "s3.amazonaws.com", GoodPath, FALSE),
        RawURL("https", "s3.amazonaws.com", GoodPath, TRUE),
        RawURL("", "", <<"%zz">>, TRUE),
        RawEmpty}

\* ------------------------------------------------------- request bodies

\* A body is a sequence of chunks of bytes.  A chunk is the text of one JSON
\* member (the request timestamp, the session's application id) or text
\* that is not JSON.
TsChunk(t) == [k |-> "timestamp", ts |-> t, app |-> ""]
AppChunk(a) == [k |-> "applicationId", ts |-> 0, app |-> a]
JunkChunk == [k |-> "junk", ts |-> 0, app |-> ""]

AppID1 == "amzn1.echo-sdk-ams.app.1"

Chunks == {TsChunk(850), TsChunk(900), AppChunk(AppID1), JunkChunk}
Bodies == SeqsUpTo(Chunks, MaxBody)

\* A body that differs from b in one chunk (the last one), or by one chunk
\* when b is empty.
Flip(b) ==
  IF b = <<>> THEN <<JunkChunk>>
  ELSE [b EXCEPT ![Len(b)] = IF @ = JunkChunk THEN AppChunk(AppID1) ELSE JunkChunk]

\* The request body as the transport delivers it: the bytes sent, how many
\* of them have been consumed, how often a reader started on it, and errAt,
\* the number of bytes after which a read fails (NoErr: never).
NoErr == -1
Stream(data, errAt) == [data |-> data, errAt |-> errAt, pos |-> 0, reads |-> 0]

\* Where reading a body may fail: nowhere, or before its last chunk.
ReadErrors(data) == {NoErr, IF data = <<>> THEN 0 ELSE Len(data) - 1}

\* request.Body is either the transport's stream or a bytes.Buffer.
StreamBody == [src |-> "stream", buf |-> <<>>]
BufferBody(bytes) == [src |-> "buffer", buf |-> bytes]

\* Reading `body` to its end (io.Copy, a json.Decoder): the bytes
\* obtained, whether the read failed, and the stream afterwards.  A stream
\* is consumed by reading: a second pass starts where the first stopped.
ReadAll(body, stream) ==
  IF body.src = "buffer"
  THEN [bytes |-> body.buf, err |-> FALSE, stream |-> stream]
  ELSE LET failing == stream.errAt # NoErr /\ stream.errAt >= stream.pos
           stop == IF failing THEN stream.errAt ELSE Len(stream.data)
       IN [bytes |-> SubSeq(stream.data, stream.pos + 1, stop),
           err |-> failing,
           stream |-> [stream EXCEPT !.pos = stop, !.reads = @ + 1]]

\* ---------------------------------------------------------------- crypto

AmazonKey == [alg |-> "rsa", id |-> "amazon"]
ECKey == [alg |-> "ecdsa", id |-> "ec"]

\* sha1: idealised as collision free, the digest names the bytes digested.
sha1Sum(bytes) == [sha1 |-> bytes]

\* The PKCS#1 v1.5 signature the holder of key id `signer` makes over the
\* SHA-1 digest of `bytes`; one unit of signature bytes.
Sign(signer, bytes) == [signer |-> signer, over |-> sha1Sum(bytes)]

\* rsa.VerifyPKCS1v15: the signature bytes are exactly the signature of
\* this key over this digest.
VerifyPKCS1v15(pub, digest, sig) ==
  sig = <<[signer |-> pub.id, over |-> digest]>>

\* base64 text: a sequence of characters groups, each the encoding of one
\* unit of bytes or a character outside the alphabet.
B64(unit) == [valid |-> TRUE, unit |-> unit]
B64Bad == [valid |-> FALSE, unit |-> Sign("", <<>>)]

\* base64.StdEncoding.DecodeString: decodes up to the first invalid
\* character and returns what was decoded so far together with the error.
DecodeString(s) ==
  LET bad == {i \in 1..Len(s) : ~s[i].valid}
      n == IF bad = {} THEN Len(s) ELSE (CHOOSE i \in bad : \A j \in bad : i <= j) - 1
  IN [bytes |-> [i \in 1..n |-> s[i].unit], err |-> bad # {}]

\* The Signature header values a client may send with body b: none, the
\* platform's signature of b, its signature of another body, another
\* signer's signature of b, and the platform's signature of b followed or
\* preceded by a character that is not base64.
SigHeaders(b) ==
  {<<>>,
   <<B64(Sign("amazon", b))>>,
   <<B64(Sign("amazon", Flip(b)))>>,
   <<B64(Sign("other", b))>>,
   <<B64(Sign("amazon", b)), B64Bad>>,
   <<B64Bad, B64(Sign("amazon", b))>>}

\* ---------------------------------------------------------- certificates

Certificate(nb, na, subject, dns, key) ==
  [NotBefore |-> nb, NotAfter |-> na, SubjectNames |-> subject,
   DNSNames |-> dns, PublicKey |-> key]

Certificates ==
  {Certificate(1000, na, subject, dns, key) :
      na \in {1001, 2000},
      subject \in {<<RequiredName>>, <<OtherName>>, <<OtherName, RequiredName>>},
      dns \in {{}, {RequiredName}},
      key \in {AmazonKey, ECKey}}

\* What the certificate URL serves: bytes that are a PEM block or not, whose
\* block is a DER certificate or not.
Document(pem, x509, cert) == [pem |-> pem, x509 |-> x509, cert |-> cert]
NoCertificate == Certificate(0, 0, <<>>, {}, ECKey)
NoDocument == Document(FALSE, FALSE, NoCertificate)

\* The outcome of the HTTP GET of readCert: err is "" or the failing step.
FetchResult(err, doc) == [err |-> err, doc |-> doc]
FetchResults ==
  {FetchResult("get", NoDocument), FetchResult("read", NoDocument),
   FetchResult("", NoDocument),
   FetchResult("", Document(TRUE, FALSE, NoCertificate))}
  \cup {FetchResult("", Document(TRUE, TRUE, c)) : c \in Certificates}

\* pem.Decode: nil when the bytes hold no PEM block.
pemDecode(contents) == [nil |-> ~contents.pem, Bytes |-> contents]

\* x509.ParseCertificate.
ParseCertificate(bytes) == [err |-> ~bytes.x509, cert |-> bytes.cert]

\* ------------------------------------------------------- the environment

\* What one pass of the chain reads from outside: the outcome of the
\* certificate fetch, the clock (t0 at the first call of time.Now(), and by
\* how much it has advanced at the second and at the third call), and the
\* place where reading the body from the transport fails.
Environment(fetch, t0, d2, d3, readErrAt) ==
  [fetch |-> fetch, t0 |-> t0, d2 |-> d2, d3 |-> d3, readErrAt |-> readErrAt]

DefaultEnv == Environment(FetchResult("get", NoDocument), 1000, 0, 0, NoErr)

Clock == 999..1002
Ticks == {0, 1}

\* The k-th reading of time.Now().Unix() during one pass.
NowAt(env, k) ==
  env.t0 + (IF k >= 2 THEN env.d2 ELSE 0) + (IF k >= 3 THEN env.d3 ELSE 0)

\* ------------------------------------------------------ the handler state

\* What a pass has done so far: the responses written to w, the lines
\* logged, the stages of IsValidAlexaRequest entered, the calls of readCert
\* and of time.Now(), request.Body and the transport stream behind it, the
\* certificate bytes and the certificate parsed from them, the digest
\* computed, the signature decoded, what the handler after validateRequest
\* read from request.Body, and the verdict IsValidAlexaRequest returned
\* ("" while it runs).
NoBytes == [done |-> FALSE, bytes |-> <<>>, err |-> FALSE]
X0(request, env) ==
  [w |-> <<>>, log |-> <<>>, trace |-> <<>>, readCertCalls |-> 0, clockReads |-> 0,
   Body |-> StreamBody, stream |-> Stream(request.body, env.readErrAt),
   certContents |-> NoDocument, cert |-> NoCertificate,
   digest |-> NoBytes, sig |-> NoBytes, nextRead |-> NoBytes, verdict |-> ""]

Enter(x, stage) == [x EXCEPT !.trace = Append(@, stage)]

\* HTTPError: log the message unless it is empty, then http.Error.
HTTPError(x, logMsg, err, errCode) ==
  [x EXCEPT !.log = IF logMsg # "" THEN Append(@, logMsg) ELSE @,
            !.w = Append(@, [code |-> errCode, text |-> err])]

\* ---------------------------------------------------- RequestValidator

\* F applied to the value of v, which is worked out once.
With(v, F(_)) == CHOOSE r \in {F(w) : w \in {v}} : TRUE

\* The rest of a function body after a step: nothing when the step
\* returned (or panicked), else K on the handler state the step left.
Then(s, K(_)) == CHOOSE r \in {IF t.verdict # "" THEN t ELSE K(t) : t \in {s}} : TRUE

Return(x, v) == [x EXCEPT !.verdict = v]

\* Mutant of readCert: a failed download is tried a second time.
readCertRetry(x, certURL, env) ==
  [x |-> [x EXCEPT !.readCertCalls = @ + (IF env.fetch.err # "" THEN 2 ELSE 1)],
   contents |-> env.fetch.doc,
   err |-> IF env.fetch.err = "get" THEN "could not download Amazon cert file"
           ELSE IF env.fetch.err = "read" THEN "could not read Amazon cert file"
           ELSE ""]

\* readCert: one GET of certURL, then the whole response body.
readCert(x, certURL, env) ==
  [x |-> [x EXCEPT !.readCertCalls = @ + 1],
   contents |-> env.fetch.doc,
   err |-> IF env.fetch.err = "get" THEN "could not download Amazon cert file"
           ELSE IF env.fetch.err = "read" THEN "could not read Amazon cert file"
           ELSE ""]

\* Mutant of certExpired: the last second of validity is refused.
certExpiredExclusive(x, env, cert) ==
  LET now1 == NowAt(env, x.clockReads + 1)
      now2 == NowAt(env, x.clockReads + 2)
  IN IF now1 < cert.NotBefore
     THEN [expired |-> TRUE, x |-> [x EXCEPT !.clockReads = @ + 1]]
     ELSE [expired |-> now2 >= cert.NotAfter, x |-> [x EXCEPT !.clockReads = @ + 2]]

\* The date check: time.Now() is read once for NotBefore and, when that
\* passes, a second time for NotAfter.
certExpired(x, env, cert) ==
  LET now1 == NowAt(env, x.clockReads + 1)
      now2 == NowAt(env, x.clockReads + 2)
  IN IF now1 < cert.NotBefore
     THEN [expired |-> TRUE, x |-> [x EXCEPT !.clockReads = @ + 1]]
     ELSE [expired |-> now2 > cert.NotAfter, x |-> [x EXCEPT !.clockReads = @ + 2]]

\* The name check: some attribute value of the certificate's Subject
\* (cert.Subject.Names) equals the required name.
foundName(cert) ==
  \E i \in 1..Len(cert.SubjectNames) : cert.SubjectNames[i] = RequiredName

\* Mutant of digestBody: request.Body is left as the consumed stream.
digestBodyNoRestore(x) ==
  LET rd == ReadAll(x.Body, x.stream)
      x1 == [x EXCEPT !.stream = rd.stream,
                      !.digest = [done |-> TRUE, bytes |-> rd.bytes, err |-> rd.err]]
  IN [err |-> rd.err, x |-> x1]

\* io.Copy(hash, io.TeeReader(request.Body, &bodyBuf)), then
\* request.Body = ioutil.NopCloser(&bodyBuf) unless the copy failed.
digestBody(x) ==
  LET rd == ReadAll(x.Body, x.stream)
      x1 == [x EXCEPT !.stream = rd.stream,
                      !.digest = [done |-> TRUE, bytes |-> rd.bytes, err |-> rd.err]]
  IN [err |-> rd.err,
      x |-> IF rd.err THEN x1 ELSE [x1 EXCEPT !.Body = BufferBody(rd.bytes)]]

\* The steps of IsValidAlexaRequest, each from the handler state the step
\* before left.

\* Verify certificate URL: verifyCertURL panics on a nil link.
certURLStep(x, request) ==
  LET urlOK == verifyCertURL(request.SignatureCertChainUrl)
      x1 == Enter(x, "certURL")
  IN IF urlOK = "panic" THEN Return(x1, "panic")
     ELSE IF urlOK = "false"
     THEN Return(HTTPError(x1, "Invalid cert URL", "Not Authorized", StatusNotAuthorized), "false")
     ELSE x1

\* Fetch certificate data.
fetchStep(x, request, env) ==
  LET rc == readCert(Enter(x, "fetch"), request.SignatureCertChainUrl, env)
  IN IF rc.err # ""
     THEN Return(HTTPError(rc.x, rc.err, "Not Authorized", StatusNotAuthorized), "false")
     ELSE [rc.x EXCEPT !.certContents = rc.contents]

\* Decode certificate data: the PEM block.
pemStep(x) ==
  LET block == pemDecode(x.certContents)
      x1 == Enter(x, "pem")
  IN IF block.nil
     THEN Return(HTTPError(x1, "Failed to parse certificate PEM.", "Not Authorized", StatusNotAuthorized), "false")
     ELSE x1

\* Decode certificate data: the certificate in the block.
x509Step(x) ==
  LET parsed == ParseCertificate(pemDecode(x.certContents).Bytes)
      x1 == Enter(x, "x509")
  IN IF parsed.err
     THEN Return(HTTPError(x1, "x509: malformed certificate", "Not Authorized", StatusNotAuthorized), "false")
     ELSE [x1 EXCEPT !.cert = parsed.cert]

\* Check the certificate date.
dateStep(x, env) ==
  LET date == certExpired(Enter(x, "date"), env, x.cert)
  IN IF date.expired
     THEN Return(HTTPError(date.x, "Amazon certificate expired.", "Not Authorized", StatusNotAuthorized), "false")
     ELSE date.x

\* Check the certificate alternate names.
nameStep(x) ==
  LET x1 == Enter(x, "name")
  IN IF ~foundName(x.cert)
     THEN Return(HTTPError(x1, "Amazon certificate invalid.", "Not Authorized", StatusNotAuthorized), "false")
     ELSE x1

\* Verify the key: the signature is decoded with its error dropped, the
\* body digested and buffered, the key asserted to be an RSA key (a panic
\* otherwise) and the signature verified.
verifySignature(x, request) ==
  LET publicKey == x.cert.PublicKey
      decoded == DecodeString(request.Signature)
      encryptedSig == decoded.bytes
      dg == digestBody([Enter(x, "sig") EXCEPT
                          !.sig = [done |-> TRUE, bytes |-> encryptedSig, err |-> decoded.err]])
  IN IF dg.err
     THEN Return(HTTPError(dg.x, "body read error", "Internal Error", StatusInternalError), "false")
     ELSE IF publicKey.alg # "rsa"
     THEN Return(dg.x, "panic")
     ELSE IF ~VerifyPKCS1v15(publicKey, sha1Sum(dg.x.digest.bytes), encryptedSig)
     THEN Return(HTTPError(dg.x, "Signature match failed.", "Not Authorized", StatusNotAuthorized), "false")
     ELSE Return(dg.x, "true")

\* IsValidAlexaRequest: the handler state it leaves, with verdict "true",
\* "false", or "panic" when the goroutine panics before it returns.
IsValidAlexaRequest(r, x, request, env) ==
  IF r.insecureSkipVerify THEN Return(x, "true")
  ELSE
    Then(Then(Then(Then(Then(Then(
      certURLStep(x, request),
      LAMBDA x1 : fetchStep(x1, request, env)),
      LAMBDA x2 : pemStep(x2)),
      LAMBDA x3 : x509Step(x3)),
      LAMBDA x4 : dateStep(x4, env)),
      LAMBDA x5 : nameStep(x5)),
      LAMBDA x6 : verifySignature(x6, request))

\* Mutant of validateRequest: the request is passed on whatever the verdict.
validateRequestAlwaysNext(r, x, request, env) ==
  With(IF request.dev # "" THEN Return(x, "skipped") ELSE IsValidAlexaRequest(r, x, request, env),
       LAMBDA v : [valid |-> v.verdict, x |-> v,
                   nextCalls |-> IF v.verdict = "panic" THEN 0 ELSE 1])

\* validateRequest: nextCalls is the number of times it calls next.
validateRequest(r, x, request, env) ==
  With(IF request.dev # "" THEN Return(x, "skipped") ELSE IsValidAlexaRequest(r, x, request, env),
       LAMBDA v :
         IF v.verdict = "panic" THEN [valid |-> "panic", x |-> v, nextCalls |-> 0]
         ELSE IF v.verdict = "false"
         THEN [valid |-> "false", x |-> [v EXCEPT !.log = Append(@, "Request invalid")],
               nextCalls |-> 0]
         ELSE [valid |-> v.verdict, x |-> v, nextCalls |-> 1])

\* ------------------------------------------------------------ verifyJSON

EchoApplication(appID) == [kind |-> "EchoApplication", AppID |-> appID]
StdApplication == [kind |-> "StdApplication", AppID |-> ""]

EchoPath == "/echo/app1"
PagePath == "/echo/page"
UnknownPath == "/echo/unknown"

\* The maps of applications handed to Run.
AppMaps ==
  {(EchoPath :> EchoApplication(AppID1)),
   (EchoPath :> EchoApplication(AppID1)) @@ (PagePath :> StdApplication)}

EchoRequest(ts, app) == [Timestamp |-> ts, AppID |-> app]
NoContext == [set |-> FALSE, echoReq |-> EchoRequest(0, "")]

RECURSIVE LastMember(_, _, _)
\* The value of the last member named k in the body, or `zero`.
LastMember(bytes, k, zero) ==
  IF bytes = <<>> THEN zero
  ELSE IF Last(bytes).k = k THEN Last(bytes)
  ELSE LastMember(SubSeq(bytes, 1, Len(bytes) - 1), k, zero)

\* json.NewDecoder(r.Body).Decode(&echoReq): fails on a failed read, on an
\* empty body and on text that is not JSON; a repeated member keeps its
\* last value, a missing one the zero value.
jsonDecode(rd) ==
  [err |-> rd.err \/ rd.bytes = <<>> \/ \E i \in 1..Len(rd.bytes) : rd.bytes[i] = JunkChunk,
   echoReq |-> EchoRequest(LastMember(rd.bytes, "timestamp", TsChunk(0)).ts,
                           LastMember(rd.bytes, "applicationId", AppChunk("")).app)]

\* EchoRequest.VerifyTimestamp: the claimed timestamp is no further than
\* the freshness window from now.
VerifyTimestamp(echoReq, now) ==
  LET d == now - echoReq.Timestamp
  IN (IF d < 0 THEN -d ELSE d) <= FreshnessWindow

\* EchoRequest.VerifyAppID.
VerifyAppID(echoReq, appID) == echoReq.AppID = appID

\* Mutant of staleRejected: the timestamp is not checked.
staleRejectedNever(echoReq, now, devFlag) == FALSE

\* The condition of the timestamp rejection in verifyJSON.
staleRejected(echoReq, now, devFlag) ==
  ~VerifyTimestamp(echoReq, now) /\ devFlag = ""

\* verifyJSON: outcome is "next" when it calls next, "rejected" when it
\* wrote an error, "panic" when the type assertion on the registry entry
\* fails.
verifyJSON(x, request, env, apps) ==
  LET rd == ReadAll(x.Body, x.stream)
      x1 == [x EXCEPT !.stream = rd.stream,
                      !.nextRead = [done |-> TRUE, bytes |-> rd.bytes, err |-> rd.err]]
      dec == jsonDecode(rd)
      echoReq == dec.echoReq
      now == NowAt(env, x.clockReads + 1)
      x2 == [x1 EXCEPT !.clockReads = @ + 1]
      Out(o, xx, ctx) == [outcome |-> o, x |-> xx, ctx |-> ctx]
  IN IF dec.err
     THEN Out("rejected", HTTPError(x1, "json: cannot decode", "Bad Request", StatusBadRequest), NoContext)
     ELSE IF staleRejected(echoReq, now, request.dev)
     THEN Out("rejected", HTTPError(x2, "Request too old to continue (>150s).", "Bad Request", StatusBadRequest), NoContext)
     ELSE IF request.path \notin DOMAIN apps \/ apps[request.path].kind # "EchoApplication"
     THEN Out("panic", x2, NoContext)
     ELSE IF ~VerifyAppID(echoReq, apps[request.path].AppID)
     THEN Out("rejected", HTTPError(x2, "Echo AppID mismatch!", "Bad Request", StatusBadRequest), NoContext)
     ELSE Out("next", x2, [set |-> TRUE, echoReq |-> echoReq])

\* GetEchoRequest: the cast of the context value; fails when it is absent.
GetEchoRequest(ctx) == [ok |-> ctx.set, echoReq |-> ctx.echoReq]

\* echoRouter: the route of an EchoApplication runs its handler, which
\* starts with GetEchoRequest; any other path is not found.
echoRouter(request, ctx, apps) ==
  IF request.path \in DOMAIN apps /\ apps[request.path].kind = "EchoApplication"
  THEN IF GetEchoRequest(ctx).ok THEN "ran" ELSE "panic"
  ELSE "notfound"

\* The responses and log lines of a handler state.
Written(x) == [w |-> x.w, log |-> x.log]

\* One pass of negroni.New(validateRequest, verifyJSON, echoRouter): vx is
\* what was written and logged when validateRequest decided, x the handler
\* state at the end.  What an application handler writes is left out.
Chain(r, request, env, apps) ==
  With(validateRequest(r, X0(request, env), request, env),
       LAMBDA v :
         IF v.nextCalls = 0
         THEN [valid |-> v.valid, nextCalls |-> 0, json |-> "notrun", handler |-> "notrun",
               ctx |-> NoContext, vx |-> Written(v.x), x |-> v.x]
         ELSE With(verifyJSON(v.x, request, env, apps),
                   LAMBDA j :
                     [valid |-> v.valid, nextCalls |-> v.nextCalls, json |-> j.outcome,
                      handler |-> IF j.outcome = "next"
                                  THEN echoRouter(request, j.ctx, apps) ELSE "notrun",
                      ctx |-> j.ctx, vx |-> Written(v.x), x |-> j.x]))

\* The environments of a pass, each differing from DefaultEnv only in what
\* the pass reads: a fetch outcome when readCert is called, a clock reading
\* for each call of time.Now(), a read failure when the stream is read.
Canonical(r, request, env, apps) ==
  With(Chain(r, request, env, apps).x,
       LAMBDA x :
         Environment(IF x.readCertCalls > 0 THEN env.fetch ELSE DefaultEnv.fetch,
                     IF x.clockReads >= 1 THEN env.t0 ELSE DefaultEnv.t0,
                     IF x.clockReads >= 2 THEN env.d2 ELSE DefaultEnv.d2,
                     IF x.clockReads >= 3 THEN env.d3 ELSE DefaultEnv.d3,
                     IF x.stream.reads > 0 THEN env.readErrAt ELSE DefaultEnv.readErrAt))

Environments(r, request, apps) ==
  LET X(e) == Chain(r, request, e, apps).x
      E1 == UNION {IF X(e).readCertCalls > 0
                   THEN {[e EXCEPT !.fetch = f] : f \in FetchResults} ELSE {e} : e \in {DefaultEnv}}
      E2 == UNION {IF X(e).clockReads >= 1
                   THEN {[e EXCEPT !.t0 = t] : t \in Clock} ELSE {e} : e \in E1}
      E3 == UNION {IF X(e).clockReads >= 2
                   THEN {[e EXCEPT !.d2 = d] : d \in Ticks} ELSE {e} : e \in E2}
      E4 == UNION {IF X(e).stream.reads > 0
                   THEN {[e EXCEPT !.readErrAt = k] : k \in ReadErrors(request.body)}
                   ELSE {e} : e \in E3}
      E5 == UNION {IF X(e).clockReads >= 1
                   THEN {[e EXCEPT !.t0 = t] : t \in (IF X(e).clockReads = 1 THEN Clock ELSE {e.t0})}
                   ELSE {e} : e \in E4}
      E6 == UNION {IF X(e).clockReads >= 3
                   THEN {[e EXCEPT !.d3 = d] : d \in Ticks} ELSE {e} : e \in E5}
  IN {Canonical(r, request, e, apps) : e \in E6}

\* ------------------------------------------------------------------ state

VARIABLES
  phase,         \* "boot", "idle", "routed" (a request entered the chain), "served"
  applications,  \* the global registry: path -> application
  validator,     \* the RequestValidator built by initialize
  req,           \* the request in the chain
  env,           \* what the pass read from outside
  out            \* what the pass did

vars == <<phase, applications, validator, req, env, out>>

Request(path, dev, certURL, signature, body) ==
  [path |-> path, dev |-> dev, SignatureCertChainUrl |-> certURL,
   Signature |-> signature, body |-> body]

NoRequest == Request("", "", RawEmpty, <<>>, <<>>)
NoOut ==
  [valid |-> "notrun", nextCalls |-> 0, json |-> "notrun", handler |-> "notrun",
   ctx |-> NoContext, vx |-> Written(X0(NoRequest, DefaultEnv)), x |-> X0(NoRequest, DefaultEnv)]

\* The package as loaded: an empty registry, no validator yet.
Init ==
  /\ phase = "boot"
  /\ applications = <<>>
  /\ validator = [insecureSkipVerify |-> FALSE]
  /\ req = NoRequest
  /\ env = DefaultEnv
  /\ out = NoOut

\* initialize(apps, router, options...): the registry is replaced and the
\* validator built from the options.
Initialize ==
  /\ phase = "boot"
  /\ \E apps \in AppMaps, insecure \in BOOLEAN :
       /\ applications' = apps
       /\ validator' = [insecureSkipVerify |-> insecure]
  /\ phase' = "idle"
  /\ UNCHANGED <<req, env, out>>

\* The requests tried.  The certificate URL is looked at before anything
\* else of the request and never again, so every URL is tried with one
\* body, and every path, body and signature with the URL that passes.
GoodURL == RawURL("https", "s3.amazonaws.com", GoodPath, FALSE)
BaseBody == <<TsChunk(900), AppChunk(AppID1)>>
Requests ==
  {Request(EchoPath, dev, certURL, <<B64(Sign("amazon", BaseBody))>>, BaseBody) :
      dev \in {"", "1"}, certURL \in CertURLs}
  \cup UNION {{Request(path, dev, GoodURL, signature, body) :
                  path \in {EchoPath, PagePath, UnknownPath}, dev \in {"", "1"},
                  signature \in SigHeaders(body)} : body \in Bodies}

\* The router hands a request whose path starts with the echo prefix to
\* the chain.
Accept ==
  /\ phase = "idle"
  /\ \E request \in Requests : req' = request
  /\ phase' = "routed"
  /\ UNCHANGED <<applications, validator, env, out>>

\* One pass of the chain over the request.
ServeEcho ==
  /\ phase = "routed"
  /\ \E e \in Environments(validator, req, applications) :
       /\ env' = e
       /\ out' = Chain(validator, req, e, applications)
  /\ phase' = "served"
  /\ UNCHANGED <<applications, validator, req>>

\* The chain has returned (or the panic was recovered) and the server is
\* ready for the next request.
Finish ==
  /\ phase = "served"
  /\ phase' = "idle"
  /\ req' = NoRequest
  /\ env' = DefaultEnv
  /\ out' = NoOut
  /\ UNCHANGED <<applications, validator>>

Next == Initialize \/ Accept \/ ServeEcho \/ Finish

Spec == Init /\ [][Next]_vars

\* ----------------------------------------------------------------- claims

Served == phase = "served"
\* IsValidAlexaRequest ran past the insecureSkipVerify shortcut.
Validated == Served /\ req.dev = "" /\ ~validator.insecureSkipVerify
Entered(stage) == \E i \in 1..Len(out.x.trace) : out.x.trace[i] = stage
Unauthorized == [code |-> StatusNotAuthorized, text |-> "Not Authorized"]
Now1 == NowAt(env, 1)
Now2 == NowAt(env, 2)
FetchedCert == env.fetch.doc.cert

\* Every step of the validation passes on the request and the environment
\* of this pass.
EveryStepPassed ==
  /\ verifyCertURL(req.SignatureCertChainUrl) = "true"
  /\ env.fetch.err = "" /\ env.fetch.doc.pem /\ env.fetch.doc.x509
  /\ FetchedCert.NotBefore <= Now1 /\ Now2 <= FetchedCert.NotAfter
  /\ foundName(FetchedCert)
  /\ env.readErrAt = NoErr
  /\ FetchedCert.PublicKey.alg = "rsa"
  /\ VerifyPKCS1v15(FetchedCert.PublicKey, sha1Sum(req.body), DecodeString(req.Signature).bytes)

\* C1: validateRequest calls next at most once, and only for a request
\* with _dev set or one IsValidAlexaRequest found valid; it finds a request
\* valid only with insecureSkipVerify or when every step passed; so a
\* request without _dev that fails a step on a verifying validator reaches
\* neither verifyJSON nor an application handler.
C1_ForwardOnlyIfValid ==
  Served =>
    /\ out.nextCalls <= 1
    /\ out.nextCalls = 1 => (req.dev # "" \/ out.valid = "true")
    /\ out.valid = "true" => (validator.insecureSkipVerify \/ EveryStepPassed)
    /\ (Validated /\ ~EveryStepPassed) =>
         (out.nextCalls = 0 /\ out.json = "notrun" /\ out.handler = "notrun"
          /\ ~out.x.nextRead.done)

C1_Witness ==
  /\ Validated /\ Entered("sig") /\ out.valid = "false" /\ out.nextCalls = 0
  /\ req.Signature = <<B64(Sign("amazon", Flip(req.body)))>>

\* C2: verifyCertURL returns a boolean for every header value, false
\* whenever the scheme is not https, the host is not s3.amazonaws.com with
\* or without :443, or the path does not start with /echo.api/; and on
\* false the request is rejected with 401 without readCert being called.
C2_CertURLAlwaysBoolean ==
  Validated =>
    LET urlOK == verifyCertURL(req.SignatureCertChainUrl)
        link == urlParse(req.SignatureCertChainUrl)
    IN /\ urlOK \in {"true", "false"}
       /\ (\/ link.Scheme # "https"
           \/ link.Host \notin {"s3.amazonaws.com", "s3.amazonaws.com:443"}
           \/ ~HasEchoApiPrefix(link.Path)) => urlOK = "false"
       /\ urlOK = "false" =>
            (out.valid = "false" /\ out.x.w = <<Unauthorized>> /\ out.x.readCertCalls = 0)

\* C3: when the certificate URL passes and the download or the read of its
\* body fails, IsValidAlexaRequest returns false with one 401, the logged
\* reason is the fetch error, no parsing, digest or signature step is
\* entered, and readCert was called exactly once; no pass calls readCert
\* more than once.
C3_FetchFailClosed ==
  Served =>
    /\ out.x.readCertCalls <= 1
    /\ (Validated /\ verifyCertURL(req.SignatureCertChainUrl) = "true" /\ env.fetch.err # "") =>
         /\ out.valid = "false" /\ out.nextCalls = 0
         /\ out.x.w = <<Unauthorized>>
         /\ out.x.log[1] = (IF env.fetch.err = "get"
                            THEN "could not download Amazon cert file"
                            ELSE "could not read Amazon cert file")
         /\ out.x.trace = <<"certURL", "fetch">>
         /\ ~out.x.digest.done /\ ~out.x.sig.done
         /\ out.x.readCertCalls = 1

C3_Witness ==
  /\ Validated /\ env.fetch.err = "read" /\ out.x.readCertCalls = 1
  /\ out.valid = "false" /\ out.x.trace = <<"certURL", "fetch">>

\* C4: for a parsed certificate inside its validity window the name check
\* passes exactly when echo-api.amazon.com is one of the certificate's
\* subject alternative names.
C4_NameCheckIsSubjectAltName ==
  (Validated /\ Entered("name")) =>
    /\ Entered("sig") <=> RequiredName \in FetchedCert.DNSNames
    /\ ~Entered("sig") => (out.valid = "false" /\ out.x.w = <<Unauthorized>>)

\* C5: the signature stage never crashes; it rejects with 401 when the
\* Signature header is not valid base64, when the public key is not an RSA
\* key and when the verification fails; and it accepts only a signature
\* that verifies over the bytes read from the body.  Stated for the
\* requests whose body is read without error.
C5_SignatureStageRejects ==
  (Validated /\ Entered("sig") /\ env.readErrAt = NoErr) =>
    /\ out.valid \in {"true", "false"}
    /\ (\/ DecodeString(req.Signature).err
        \/ FetchedCert.PublicKey.alg # "rsa"
        \/ ~VerifyPKCS1v15(FetchedCert.PublicKey, sha1Sum(req.body), DecodeString(req.Signature).bytes))
         => (out.valid = "false" /\ out.vx.w = <<Unauthorized>>)
    /\ out.valid = "true" =>
         VerifyPKCS1v15(FetchedCert.PublicKey, sha1Sum(out.x.digest.bytes), out.x.sig.bytes)

\* C6: IsValidAlexaRequest ends every validation with true or false; on
\* false it has written exactly one response, a 401 with the generic text,
\* and logged a reason; on true it has written nothing.  Stated for the
\* requests whose body the transport delivers whole: a failed read of the
\* body is answered with a 500, which the claim does not provide for
\* either.
C6_EveryRejectionIs401 ==
  (Served /\ req.dev = "" /\ env.readErrAt = NoErr) =>
    /\ out.valid \in {"true", "false"}
    /\ out.valid = "false" =>
         (out.vx.w = <<Unauthorized>> /\ Len(out.vx.log) >= 1 /\ out.vx.log[1] # "")
    /\ out.valid = "true" => out.vx.w = <<>>

\* What the transport delivers of the request body.
Delivered ==
  IF env.readErrAt = NoErr THEN req.body ELSE SubSeq(req.body, 1, env.readErrAt)

\* C7: whenever validateRequest forwards a request, the next handler reads
\* from request.Body exactly the bytes the transport delivers, all of the
\* original body when the transport does not fail; the transport stream is
\* read once; and after a signature verification the digest was computed
\* over those same, complete bytes.
C7_BodyReadableDownstream ==
  (Served /\ out.nextCalls >= 1) =>
    /\ out.x.nextRead.done
    /\ out.x.nextRead.bytes = Delivered
    /\ env.readErrAt = NoErr => (out.x.nextRead.bytes = req.body /\ ~out.x.nextRead.err)
    /\ out.x.stream.reads = 1
    /\ out.x.digest.done =>
         (out.x.digest.bytes = req.body /\ out.x.nextRead.bytes = out.x.digest.bytes
          /\ ~out.x.nextRead.err)

C7_Witness ==
  /\ Validated /\ out.valid = "true" /\ out.x.digest.done /\ out.nextCalls = 1
  /\ Len(req.body) = 2 /\ out.x.nextRead.bytes = req.body

\* The request verifyJSON decoded and the clock reading of its timestamp
\* check.
DecodedRequest == jsonDecode(out.x.nextRead)
TimestampChecked == Served /\ out.json # "notrun" /\ ~DecodedRequest.err
Stale == ~VerifyTimestamp(DecodedRequest.echoReq, NowAt(env, out.x.clockReads))
TooOld == [code |-> StatusBadRequest, text |-> "Bad Request"]
RejectedAsStale ==
  /\ out.json = "rejected" /\ out.handler = "notrun"
  /\ Last(out.x.w) = TooOld
  /\ Last(out.x.log) = "Request too old to continue (>150s)."

\* C8 as claimed: a request whose timestamp fails the freshness check is
\* rejected by verifyJSON with 400 and never reaches the application
\* handler (stated for the passes that do not end in the failed type
\* assertion of C10).
C8_StaleAlwaysRejected ==
  (TimestampChecked /\ Stale /\ out.json # "panic") =>
    (out.json = "rejected" /\ Last(out.x.w) = TooOld /\ out.handler = "notrun")

\* C8 as amended: a request without _dev whose timestamp fails the
\* freshness check is rejected by verifyJSON with 400 and never reaches the
\* application handler; with _dev set the failed check rejects nothing; a
\* timestamp inside the window is never rejected as too old.
C8_StaleRejectedUnlessDev ==
  TimestampChecked =>
    /\ (Stale /\ req.dev = "") => RejectedAsStale
    /\ (Stale /\ req.dev # "") => ~RejectedAsStale
    /\ ~Stale => ~RejectedAsStale

C8_Witness ==
  /\ TimestampChecked /\ Stale /\ req.dev = "" /\ out.valid = "true"
  /\ ~validator.insecureSkipVerify /\ RejectedAsStale
  /\ NowAt(env, out.x.clockReads) - DecodedRequest.echoReq.Timestamp = FreshnessWindow + 1

\* C9: a parsed certificate is rejected with 401 when the clock reads
\* before NotBefore or after NotAfter, and passes the date check when the
\* readings lie in [NotBefore, NotAfter], both ends included.
C9_ValidityWindowInclusive ==
  (Validated /\ Entered("date")) =>
    /\ (Now1 < FetchedCert.NotBefore \/ Now2 > FetchedCert.NotAfter) =>
         /\ out.valid = "false" /\ out.x.w = <<Unauthorized>>
         /\ out.x.log[1] = "Amazon certificate expired."
         /\ ~Entered("name")
    /\ (FetchedCert.NotBefore <= Now1 /\ Now2 <= FetchedCert.NotAfter) => Entered("name")

C9_Witness ==
  /\ Validated /\ Entered("date") /\ Entered("name")
  /\ Now1 = FetchedCert.NotBefore /\ Now2 = FetchedCert.NotAfter

\* C10: no pass fails a type assertion: the registry entry of the request
\* path is an EchoApplication at the AppID check, and the context holds
\* the EchoRequest whenever an application handler runs.
C10_NoFailingAssertion ==
  Served =>
    /\ out.json # "panic"
    /\ out.handler # "panic"
    /\ out.handler = "ran" => out.ctx.set

====
